---- MODULE Spec2Model ----
(***************************************************************************)
(* State-machine model of the Diya soft-launch front ends:                 *)
(*   - brand_content_studio/app/static/js/main.js (the vanilla-JS studio), *)
(*   - the React BrandContext provider and the services/api.js client,     *)
(*   - the router-state AnalysisLoader (GSAP timeline + fetch).            *)
(* Each front end has its own specification; the variables of the other    *)
(* front ends stay at their initial values.                                *)
(***************************************************************************)
EXTENDS Integers, Sequences, FiniteSets, TLC

VARIABLES
    \* ---- main.js ----
    domReady,       \* DOMContentLoaded has fired
    brandData,      \* let brandData
    calendarData,   \* let calendarData
    hidden,         \* element -> carries the 'hidden' class
    errText,        \* textContent of #brand-error / #calendar-error
    navActive,      \* nav links carrying 'active'
    sectionActive,  \* sections carrying 'active'
    inflight,       \* fetch requests awaiting their response, in issue order
    cardsShown,     \* the calendar rendered into #calendar-container
    copyText,       \* Copy button of each card -> its label
    copyTimers,     \* pending setTimeout callbacks of the copy handler, in firing order
    lastTone,       \* tone of the /calendar/generate request issued last (history)
    \* ---- BrandContext.jsx / services/api.js ----
    hasProvider,     \* a BrandProvider is mounted above the components
    url,             \* useState('')
    ctxBrandData,    \* useState(null): brandData of the provider
    contentSettings, \* useState({platforms: [], frequency: '3/week'})
    generatedPosts,  \* useState([])
    loading,         \* useState(false)
    error,           \* useState(null)
    calls,           \* analyzeBrand / generateContent calls awaiting the API service
    settled,         \* the context operation that ran last and how it settled (history)
    hookResult,      \* what the latest useBrand() call returned or threw
    \* ---- AnalysisLoader.jsx (router state) ----
    state,           \* useLocation().state: the url handed over by the intake page
    statusText,      \* useState(LOADING_STEPS[0])
    fetchedDataRef,  \* useRef(null)
    timelineRef,     \* useRef(null): the GSAP timeline, its playhead and paused flag
    isMounted,       \* let isMounted of the layout effect
    minDelay,        \* the 1000 ms promise
    fetchData,       \* the fetch(...).then(...).catch(...) promise
    promiseAll,      \* Promise.all([minDelay, fetchData]) and its handler
    exitFade,        \* the gsap.to fade of the exit sequence and its finalData
    navigated,       \* the navigate() call made by the fade's onComplete
    \* ---- AnalysisLoader.jsx (BrandContext) ----
    route,           \* the router's current location
    mounted,         \* the AnalysisLoader is mounted
    apiError,        \* useState(null)
    isAnalyzing,     \* useState(false)
    analysisStarted, \* useRef(false)
    rendered,        \* isAnalyzing and apiError as of the last render
    toCommit,        \* "mount": first effects still to run; "update": a re-render is due
    attempt,         \* the analyzeBrand promise awaited: "none", "mount" or "retry"
    outcome,         \* how the last analyzeBrand promise settled (history)
    delayTimer,      \* the 1000 ms timer of the completion effect is pending
    fade,            \* the gsap.to fade-out: "none", "running", "stalled" or "done"
    safetyTimers,    \* pending 3000 ms safety timers
    navLog,          \* the navigate() calls made so far (history)
    animating,       \* the loading-text timeline is running
    \* ---- BrandPersona (router state) ----
    locationState,   \* useLocation().state
    personaRendered, \* BrandPersona has rendered
    safeDataColors,  \* safeData.colors
    swatches         \* the .color-swatch elements of the Brand Palette card

mainVars == <<domReady, brandData, calendarData, hidden, errText, navActive,
              sectionActive, inflight, cardsShown, copyText, copyTimers, lastTone>>

ctxVars == <<hasProvider, url, ctxBrandData, contentSettings, generatedPosts, loading,
             error, calls, settled, hookResult>>

loaderVars == <<state, statusText, fetchedDataRef, timelineRef, isMounted, minDelay,
                fetchData, promiseAll, exitFade, navigated>>

clVars == <<route, mounted, apiError, isAnalyzing, analysisStarted, rendered, toCommit,
            attempt, outcome, delayTimer, fade, safetyTimers, navLog, animating>>

personaVars == <<locationState, personaRendered, safeDataColors, swatches>>

vars == <<mainVars, ctxVars, loaderVars, clVars, personaVars>>

\* What a handler of main.js leaves alone.
otherThanMain == <<ctxVars, loaderVars, clVars, personaVars>>

\* What an operation of the BrandContext leaves alone.
otherThanCtx == <<mainVars, loaderVars, clVars, personaVars>>

\* What the AnalysisLoader leaves alone.
otherThanLoader == <<mainVars, ctxVars, clVars, personaVars>>

\* What BrandPersona leaves alone.
otherThanPersona == <<mainVars, ctxVars, loaderVars, clVars>>

----------------------------------------------------------------------------
(* Bounds of the model *)

MaxInFlight == 2
MaxTimers == 3
NumCards == 2
MaxCalls == 2
MaxColorEntries == 6

----------------------------------------------------------------------------
(* main.js : values *)

Sections == {"home", "brand", "calendar"}
Elements == {"loading", "brandProfile", "brandError",
             "calendarContainer", "calendarError", "calendarLoading"}
Tones == {"professional", "casual"}

\* What the user can have typed into #website-url.
UrlInputs == {<<>>, <<" ">>, <<"u">>, <<" ", "u", " ">>}
NameInputs == {"", "Acme"}

\* brand_data objects a response can carry: bdA renders; bdBadPage has a
\* pages_analyzed entry that is no absolute URL, on which new URL(page) throws.
BrandDatas == {"bdA", "bdBadPage"}

\* The Copy buttons displayCalendar creates, one per card.
Buttons == 1..NumCards
FreshButtons == [b \in Buttons |-> "Copy"]

CalendarFor(tone) == "calendar:" \o tone

\* String.prototype.trim on a sequence of characters.
RECURSIVE TrimLeft(_)
TrimLeft(s) == IF s # <<>> /\ Head(s) = " " THEN TrimLeft(Tail(s)) ELSE s

RECURSIVE TrimRight(_)
TrimRight(s) ==
    IF s # <<>> /\ s[Len(s)] = " " THEN TrimRight(SubSeq(s, 1, Len(s) - 1)) ELSE s

\* Faulty variant of Trim: the value is used as typed.
TrimNothing(s) == s

Trim(s) == TrimRight(TrimLeft(s))

showElement(h, el) == [h EXCEPT ![el] = FALSE]
hideElement(h, el) == [h EXCEPT ![el] = TRUE]

\* The responses fetch can settle with.  net: fetch itself rejected; json: the
\* body parses as JSON; error / brand_data / calendar: the body's fields.
Response(net, ok, json, err, data) ==
    [net |-> net, ok |-> ok, json |-> json, error |-> err, data |-> data]

AnalyzeResponses ==
    {Response(TRUE, FALSE, FALSE, "undefined", "undefined")}
    \cup {Response(FALSE, TRUE, FALSE, "undefined", "undefined")}
    \cup {Response(FALSE, FALSE, TRUE, e, "undefined") : e \in {"undefined", "Scrape failed"}}
    \cup {Response(FALSE, TRUE, TRUE, "undefined", d) : d \in BrandDatas \cup {"undefined"}}

Request(endpoint, source, u, name, data, tone) ==
    [endpoint |-> endpoint, source |-> source, url |-> u, brandName |-> name,
     brand_data |-> data, tone |-> tone]

CalendarResponses(req) ==
    {Response(TRUE, FALSE, FALSE, "undefined", "undefined"),
     Response(FALSE, FALSE, TRUE, "Generation failed", "undefined"),
     Response(FALSE, TRUE, TRUE, "undefined", CalendarFor(req.tone)),
     Response(FALSE, TRUE, TRUE, "undefined", "undefined")}

RemoveAt(s, i) == SubSeq(s, 1, i - 1) \o SubSeq(s, i + 1, Len(s))

Outstanding(endpoint) == {i \in 1..Len(inflight) : inflight[i].endpoint = endpoint}

----------------------------------------------------------------------------
(* BrandContext : the provider's state right after its first render *)

NotRendered == [kind |-> "none"]

\* The placeholder for "no response" in the history of operations that consume none.
NoResponse ==
    [net |-> FALSE, netMessage |-> "", status |-> 0, json |-> FALSE,
     success |-> "undefined", error |-> "undefined", brand_data |-> "undefined",
     posts |-> "undefined", calendar |-> "undefined"]

\* History record of a context operation: how it settled (kind, value), the
\* API response it consumed and whether clearBrandData ran while it was in flight.
Settled(op, kind, value, resp, stale) ==
    [op |-> op, kind |-> kind, value |-> value, resp |-> resp, stale |-> stale]

DefaultSettings == [platforms |-> {}, frequency |-> "3/week"]

ProviderState ==
    /\ url = ""
    /\ ctxBrandData = "null"
    /\ contentSettings = DefaultSettings
    /\ generatedPosts = "[]"
    /\ loading = FALSE
    /\ error = "null"
    /\ calls = <<>>
    /\ settled = Settled("none", "none", "undefined", NoResponse, FALSE)
    /\ hookResult = NotRendered

CtxIdle == hasProvider = TRUE /\ ProviderState

----------------------------------------------------------------------------
(* AnalysisLoader.jsx (router state) : the component as first rendered *)

LOADING_STEPS == <<"Analyzing your responses...",
                   "Detecting your brand's unique voice...",
                   "Curating your perfect color palette...",
                   "Designing your custom persona...">>

NoTimeline == [created |-> FALSE, pos |-> 1, paused |-> FALSE]

\* The parsed body (or the object the catch returns) the fetch chain resolves with.
LoaderData(success, brand_data, err) ==
    [success |-> success, brand_data |-> brand_data, error |-> err]

NotFetched == [status |-> "none", data |-> LoaderData("undefined", "undefined", "undefined")]

\* finalData of the exit sequence: the fetched brand, or the fallback object.
FinalData(brand, name, description, isFallback) ==
    [brand |-> brand, name |-> name, description |-> description,
     isFallback |-> isFallback]

NoFinalData == FinalData("null", <<>>, "", FALSE)

LoaderRendered ==
    /\ statusText = LOADING_STEPS[1]
    /\ fetchedDataRef = "null"
    /\ timelineRef = NoTimeline
    /\ isMounted = FALSE
    /\ minDelay = "none"
    /\ fetchData = NotFetched
    /\ promiseAll = "none"
    /\ exitFade = [started |-> FALSE, finalData |-> NoFinalData]
    /\ navigated = [to |-> "", brandData |-> NoFinalData]

LoaderIdle == state = [url |-> <<>>] /\ LoaderRendered

----------------------------------------------------------------------------
(* AnalysisLoader.jsx (BrandContext) : the component as first rendered *)

NoOutcome == [attempt |-> "none", result |-> "none", message |-> ""]

FirstRender ==
    /\ apiError = "null"
    /\ isAnalyzing = FALSE
    /\ analysisStarted = FALSE
    /\ rendered = [isAnalyzing |-> FALSE, apiError |-> "null"]
    /\ attempt = "none"
    /\ outcome = NoOutcome
    /\ delayTimer = FALSE
    /\ fade = "none"
    /\ safetyTimers = 0
    /\ navLog = <<>>
    /\ animating = FALSE

\* The context-based loader while another front end is the one running.
CtxLoaderIdle == route = "none" /\ mounted = FALSE /\ toCommit = "none" /\ FirstRender

\* A JavaScript string, as its first character and the rest.
JsString(head, tail) == [type |-> "string", head |-> head, tail |-> tail, items |-> <<>>]

\* A JavaScript array of strings (a [hex, label] tuple of the backend).
JsTuple(items) == [type |-> "array", head |-> "", tail |-> "", items |-> items]

JsNull == [type |-> "null", head |-> "", tail |-> "", items |-> <<>>]

\* brandData.colors: kind is its JavaScript type ("undefined", "null", "array",
\* "object" or "string"), entries are the array's elements or the object's values.
Colors(kind, entries) == [kind |-> kind, entries |-> entries]

\* useLocation().state without brandData.
NoBrandData == [hasBrandData |-> FALSE, colors |-> Colors("undefined", <<>>)]

\* BrandPersona while another front end is the one running.
PersonaIdle ==
    /\ locationState = NoBrandData
    /\ personaRendered = FALSE
    /\ safeDataColors = <<>>
    /\ swatches = <<>>

----------------------------------------------------------------------------
(* main.js : initial state *)

\* The 'hidden' classes of index.html as served: the spinners, the error boxes,
\* the brand profile and the calendar container start hidden.
InitialHidden == [el \in Elements |-> TRUE]

MainInit ==
    /\ domReady = FALSE
    /\ brandData = "null"
    /\ calendarData = "null"
    /\ hidden = InitialHidden
    /\ errText = [el \in {"brandError", "calendarError"} |-> ""]
    /\ navActive \in SUBSET Sections
    /\ sectionActive \in SUBSET Sections
    /\ inflight = <<>>
    /\ cardsShown = "none"
    /\ copyText = FreshButtons
    /\ copyTimers = <<>>
    /\ lastTone = ""
    /\ CtxIdle
    /\ LoaderIdle
    /\ CtxLoaderIdle
    /\ PersonaIdle

\* The studio page while one of the React front ends is the one running.
MainIdle ==
    /\ domReady = FALSE
    /\ brandData = "null"
    /\ calendarData = "null"
    /\ hidden = InitialHidden
    /\ errText = [el \in {"brandError", "calendarError"} |-> ""]
    /\ navActive = {}
    /\ sectionActive = {}
    /\ inflight = <<>>
    /\ cardsShown = "none"
    /\ copyText = FreshButtons
    /\ copyTimers = <<>>
    /\ lastTone = ""

----------------------------------------------------------------------------
(* main.js : handlers *)

\* Faulty variant of navigateToSection: the old 'active' classes are not removed.
navigateWithoutClearing(active, sectionName) == active \cup {sectionName}

\* navigateToSection(sectionName): the new 'active' sets of nav links and sections.
navigateToSection(active, sectionName) == (active \ Sections) \cup {sectionName}

DOMContentLoaded ==
    /\ ~domReady
    /\ domReady' = TRUE
    /\ navActive' = navigateToSection(navActive, "home")
    /\ sectionActive' = navigateToSection(sectionActive, "home")
    /\ UNCHANGED <<brandData, calendarData, hidden, errText, inflight, cardsShown,
                   copyText, copyTimers>>
    /\ UNCHANGED <<lastTone, otherThanMain>>

\* Click handler of the nav link of section s.
ClickNav(s) ==
    /\ domReady
    /\ navActive' = navigateToSection(navActive, s)
    /\ sectionActive' = navigateToSection(sectionActive, s)
    /\ UNCHANGED <<domReady, brandData, calendarData, hidden, errText, inflight,
                   cardsShown, copyText, copyTimers>>
    /\ UNCHANGED <<lastTone, otherThanMain>>

\* analyzeBrand(source, data) up to its await fetch(...).
analyzeBrandStart(req) ==
    /\ Len(inflight) < MaxInFlight
    /\ hidden' = hideElement(showElement(hidden, "loading"), "brandError")
    /\ inflight' = Append(inflight, req)
    /\ UNCHANGED <<domReady, brandData, calendarData, errText, navActive,
                   sectionActive, cardsShown, copyText, copyTimers>>

\* analyzeUrlBtn click handler; value is what #website-url holds.
ClickAnalyze(value) ==
    /\ domReady
    /\ LET trimmed == Trim(value) IN
       IF trimmed = <<>>
       THEN /\ errText' = [errText EXCEPT !["brandError"] = "Please enter a valid URL"]
            /\ hidden' = showElement(hidden, "brandError")
            /\ UNCHANGED <<domReady, brandData, calendarData, navActive, sectionActive,
                           inflight, cardsShown, copyText, copyTimers>>
       ELSE analyzeBrandStart(Request("analyze", "url", trimmed, "", "undefined", ""))
    /\ UNCHANGED <<lastTone, otherThanMain>>

\* The browser's constraint validation of #manual-brand-form: the Brand Name
\* field is required, and a form with an empty required field dispatches no
\* submit event.
checkValidity(name) == name # ""

\* Faulty variant of SubmitManual: the name is read from an element that does
\* not hold it.
SubmitManualWithoutName(name) ==
    /\ domReady
    /\ checkValidity(name)
    /\ analyzeBrandStart(Request("analyze", "manual", <<>>, "", "undefined", ""))
    /\ UNCHANGED <<lastTone, otherThanMain>>

\* manualBrandForm submit handler; name is what #brand-name holds.
SubmitManual(name) ==
    /\ domReady
    /\ checkValidity(name)
    /\ analyzeBrandStart(Request("analyze", "manual", <<>>, name, "undefined", ""))
    /\ UNCHANGED <<lastTone, otherThanMain>>

\* displayBrandProfile(data): "ok", or where it throws.
displayBrandProfile(data) ==
    IF data \in {"undefined", "null"} THEN "throwsOnName"
    ELSE IF data = "bdBadPage" THEN "throwsOnPage"
    ELSE "ok"

\* The message of the TypeError displayBrandProfile(data) throws.
displayBrandProfileError(data) ==
    IF displayBrandProfile(data) = "throwsOnName"
    THEN "Cannot read properties of undefined"
    ELSE "Invalid URL"

\* Faulty variant of analyzeBrandError: response.ok is not looked at.
analyzeBrandErrorIgnoresStatus(r) ==
    IF r.net THEN "Failed to fetch"
    ELSE IF ~r.json THEN "Unexpected token < in JSON"
    ELSE IF displayBrandProfile(r.data) # "ok" THEN displayBrandProfileError(r.data)
    ELSE ""

\* The message of the exception analyzeBrand's catch block receives, "" if none.
analyzeBrandError(r) ==
    IF r.net THEN "Failed to fetch"
    ELSE IF ~r.json THEN "Unexpected token < in JSON"
    ELSE IF ~r.ok THEN (IF r.error \in {"undefined", ""}
                        THEN "Failed to analyze brand" ELSE r.error)
    ELSE IF displayBrandProfile(r.data) # "ok" THEN displayBrandProfileError(r.data)
    ELSE ""

\* analyzeBrand(source, data) from the response of request i on.
AnalyzeSettle(i, r) ==
    /\ i \in Outstanding("analyze")
    /\ r \in AnalyzeResponses
    /\ inflight' = RemoveAt(inflight, i)
    /\ LET stored == ~r.net /\ r.json /\ r.ok
           msg == analyzeBrandError(r)
           h1 == IF stored
                 THEN hideElement(showElement(hidden, "brandProfile"), "brandError")
                 ELSE hidden
       IN /\ brandData' = IF stored THEN r.data ELSE brandData
          /\ IF msg = ""
             THEN /\ hidden' = hideElement(h1, "loading")
                  /\ errText' = errText
                  /\ navActive' = navigateToSection(navActive, "brand")
                  /\ sectionActive' = navigateToSection(sectionActive, "brand")
             ELSE /\ hidden' = showElement(hideElement(h1, "loading"), "brandError")
                  /\ errText' = [errText EXCEPT !["brandError"] = msg]
                  /\ UNCHANGED <<navActive, sectionActive>>
    /\ UNCHANGED <<domReady, calendarData, cardsShown, copyText, copyTimers>>
    /\ UNCHANGED <<lastTone, otherThanMain>>

\* generateCalendar() up to its await fetch(...); the Generate and the Regenerate
\* button both call it.  tone is what #content-tone holds.
ClickGenerate(tone) ==
    /\ domReady
    /\ IF brandData \in {"null", "undefined"}
       THEN /\ errText' = [errText EXCEPT !["calendarError"] =
                                              "Please analyze a brand first"]
            /\ hidden' = showElement(hidden, "calendarError")
            /\ UNCHANGED <<inflight, lastTone>>
       ELSE /\ Len(inflight) < MaxInFlight
            /\ hidden' = hideElement(hideElement(showElement(hidden, "calendarLoading"),
                                                 "calendarError"), "calendarContainer")
            /\ inflight' = Append(inflight, Request("calendar", "", <<>>, "",
                                                    brandData, tone))
            /\ lastTone' = tone
            /\ UNCHANGED errText
    /\ UNCHANGED <<domReady, brandData, calendarData, navActive, sectionActive,
                   cardsShown, copyText, copyTimers>>
    /\ UNCHANGED otherThanMain

\* The message of the exception generateCalendar's catch block receives, "" if none.
generateCalendarError(r) ==
    IF r.net THEN "Failed to fetch"
    ELSE IF ~r.json THEN "Unexpected token < in JSON"
    ELSE IF ~r.ok THEN (IF r.error \in {"undefined", ""}
                        THEN "Failed to generate calendar" ELSE r.error)
    ELSE IF r.data = "undefined" THEN "Cannot read properties of undefined"
    ELSE ""

\* generateCalendar() from the response of request i on.  displayCalendar
\* replaces the cards, so the timers of the replaced Copy buttons write to
\* detached nodes only and are dropped from copyTimers.
CalendarSettle(i, r) ==
    /\ i \in Outstanding("calendar")
    /\ r \in CalendarResponses(inflight[i])
    /\ inflight' = RemoveAt(inflight, i)
    /\ LET stored == ~r.net /\ r.json /\ r.ok
           msg == generateCalendarError(r)
       IN /\ calendarData' = IF stored THEN r.data ELSE calendarData
          /\ cardsShown' = IF ~stored THEN cardsShown
                           ELSE IF msg = "" THEN r.data ELSE "none"
          /\ copyText' = IF stored THEN FreshButtons ELSE copyText
          /\ copyTimers' = IF stored THEN <<>> ELSE copyTimers
          /\ IF msg = ""
             THEN /\ hidden' = showElement(hideElement(hidden, "calendarLoading"),
                                           "calendarContainer")
                  /\ errText' = errText
                  /\ navActive' = navigateToSection(navActive, "calendar")
                  /\ sectionActive' = navigateToSection(sectionActive, "calendar")
             ELSE /\ hidden' = showElement(hideElement(hidden, "calendarLoading"),
                                           "calendarError")
                  /\ errText' = [errText EXCEPT !["calendarError"] = msg]
                  /\ UNCHANGED <<navActive, sectionActive>>
    /\ UNCHANGED <<domReady, brandData>>
    /\ UNCHANGED <<lastTone, otherThanMain>>

\* Click handler of card b's Copy button.
ClickCopy(b) ==
    /\ domReady
    /\ cardsShown # "none"
    /\ ~hidden["calendarContainer"]
    /\ Len(copyTimers) < MaxTimers
    /\ copyTimers' = Append(copyTimers, [btn |-> b, originalText |-> copyText[b]])
    /\ copyText' = [copyText EXCEPT ![b] = "Copied!"]
    /\ UNCHANGED <<domReady, brandData, calendarData, hidden, errText, navActive,
                   sectionActive, inflight, cardsShown>>
    /\ UNCHANGED <<lastTone, otherThanMain>>

\* The oldest pending setTimeout callback of the copy handler runs: it writes
\* back the originalText its click captured.
CopyTimerFires ==
    /\ copyTimers # <<>>
    /\ copyText' = [copyText EXCEPT ![Head(copyTimers).btn] =
                                        Head(copyTimers).originalText]
    /\ copyTimers' = Tail(copyTimers)
    /\ UNCHANGED <<domReady, brandData, calendarData, hidden, errText, navActive,
                   sectionActive, inflight, cardsShown>>
    /\ UNCHANGED <<lastTone, otherThanMain>>

MainNext ==
    \/ DOMContentLoaded
    \/ \E s \in Sections : ClickNav(s)
    \/ \E v \in UrlInputs : ClickAnalyze(v)
    \/ \E v \in NameInputs : SubmitManual(v)
    \/ \E i \in Outstanding("analyze") : \E r \in AnalyzeResponses : AnalyzeSettle(i, r)
    \/ \E t \in Tones : ClickGenerate(t)
    \/ \E i \in Outstanding("calendar") :
          \E r \in CalendarResponses(inflight[i]) : CalendarSettle(i, r)

\* main.js: brand analysis, calendar generation and navigation.
Spec == MainInit /\ [][MainNext]_vars

\* The page once generateCalendar has rendered a calendar: a state Spec reaches.
CalendarRendered ==
    /\ domReady = TRUE
    /\ brandData = "bdA"
    /\ calendarData = CalendarFor("professional")
    /\ cardsShown = calendarData
    /\ hidden = [InitialHidden EXCEPT !["brandProfile"] = FALSE,
                                      !["calendarContainer"] = FALSE]
    /\ errText = [el \in {"brandError", "calendarError"} |-> ""]
    /\ navActive = {"calendar"}
    /\ sectionActive = {"calendar"}
    /\ inflight = <<>>
    /\ copyText = FreshButtons
    /\ copyTimers = <<>>
    /\ lastTone = "professional"
    /\ CtxIdle
    /\ LoaderIdle
    /\ CtxLoaderIdle
    /\ PersonaIdle

CopyNext ==
    \/ \E b \in Buttons : ClickCopy(b)
    \/ CopyTimerFires

\* main.js: the Copy buttons of a rendered calendar.
CopySpec == CalendarRendered /\ [][CopyNext]_vars

----------------------------------------------------------------------------
(* services/api.js *)

StatusCodes == {200, 404, 500}

\* What fetch can settle with.  net: fetch rejected, with netMessage as the
\* error's message; status: the HTTP status; json: the body parses as JSON;
\* success, error, brand_data, posts, calendar: the body's fields.
ApiResponse(net, netMessage, status, json, success, err, brand_data, posts, calendar) ==
    [net |-> net, netMessage |-> netMessage, status |-> status, json |-> json,
     success |-> success, error |-> err, brand_data |-> brand_data,
     posts |-> posts, calendar |-> calendar]

NetworkFailures ==
    {ApiResponse(TRUE, m, 0, FALSE, "undefined", "undefined", "undefined", "undefined",
                 "undefined") : m \in {"Failed to fetch", ""}}

NotJson(status) ==
    ApiResponse(FALSE, "", status, FALSE, "undefined", "undefined", "undefined",
                "undefined", "undefined")

ErrorBody(status, success, err) ==
    ApiResponse(FALSE, "", status, TRUE, success, err, "undefined", "undefined",
                "undefined")

ErrorBodies ==
    {ErrorBody(500, "false", e) : e \in {"undefined", "", "Scrape failed"}}
    \cup {ErrorBody(200, "false", e) : e \in {"undefined", "Scrape failed"}}
    \cup {ErrorBody(200, "undefined", "undefined")}

AnalyzeBodies ==
    {ApiResponse(FALSE, "", 200, TRUE, "true", "undefined", d, "undefined", "undefined") :
        d \in {"bdA", "bdB", "undefined"}}

GenerateBody(posts, calendar) ==
    ApiResponse(FALSE, "", 200, TRUE, "true", "undefined", "undefined", posts, calendar)

GenerateBodies ==
    {GenerateBody("postsA", "undefined"), GenerateBody("undefined", "calA"),
     GenerateBody("[]", "calA"), GenerateBody("undefined", "undefined")}

ApiAnalyzeResponses ==
    NetworkFailures \cup {NotJson(st) : st \in StatusCodes} \cup ErrorBodies
    \cup AnalyzeBodies

ApiGenerateResponses ==
    {NotJson(404), ErrorBody(500, "false", "Scrape failed"), ErrorBody(200, "false", "")}
    \cup GenerateBodies

\* response.ok
ok(resp) == resp.status \in 200..299

\* JavaScript truthiness of a body field.
Truthy(v) == v \notin {"undefined", "null", "", "false"}

Resolve(v) == [kind |-> "resolve", value |-> v]
Reject(message) == [kind |-> "reject", value |-> message]

StatusMessage(resp) == "API request failed with status " \o ToString(resp.status)

\* The part analyzeBrand, generateCalendar and generateContent share: what the
\* call rejects with before it reads the payload, or "none".
apiFailure(resp, fallback) ==
    IF resp.net THEN Reject(resp.netMessage)
    ELSE IF ~ok(resp)
         THEN Reject(IF resp.json /\ Truthy(resp.error) THEN resp.error
                     ELSE StatusMessage(resp))
    ELSE IF ~resp.json THEN Reject("Unexpected token < in JSON")
    ELSE IF ~Truthy(resp.success)
         THEN Reject(IF Truthy(resp.error) THEN resp.error ELSE fallback)
    ELSE [kind |-> "none", value |-> "undefined"]

\* Faulty variant of analyzeBrandAPI: returns the whole body, not its brand_data.
analyzeBrandReturnsBody(resp) ==
    IF apiFailure(resp, "Brand analysis failed").kind = "reject"
    THEN apiFailure(resp, "Brand analysis failed")
    ELSE Resolve("body")

\* Faulty variant of analyzeBrandAPI: the body's success flag is not looked at.
analyzeBrandIgnoresSuccess(resp) ==
    IF ~resp.net /\ ok(resp) /\ resp.json
    THEN Resolve(resp.brand_data)
    ELSE apiFailure(resp, "Brand analysis failed")

\* export async function analyzeBrand(url)
analyzeBrandAPI(resp) ==
    IF apiFailure(resp, "Brand analysis failed").kind = "reject"
    THEN apiFailure(resp, "Brand analysis failed")
    ELSE Resolve(resp.brand_data)

\* export async function generateContent(brandData, platforms, frequency)
generateContentAPI(resp) ==
    IF apiFailure(resp, "Content generation failed").kind = "reject"
    THEN apiFailure(resp, "Content generation failed")
    ELSE Resolve(IF Truthy(resp.posts) \/ resp.posts = "[]" THEN resp.posts
                 ELSE IF Truthy(resp.calendar) THEN resp.calendar
                 ELSE "[]")

----------------------------------------------------------------------------
(* BrandContext.jsx *)

Urls == {"", "https://acme.com"}
Settings == {DefaultSettings, [platforms |-> {"instagram"}, frequency |-> "12/month"]}

\* The value object BrandProvider hands to its consumers (its state part; the
\* actions are the handlers below).
ProviderValue ==
    [url |-> url, brandData |-> ctxBrandData, contentSettings |-> contentSettings,
     generatedPosts |-> generatedPosts, loading |-> loading, error |-> error]

\* Faulty variant of useContext: the context's default value is an object.
useContextWithDefault == [kind |-> "object", value |-> ProviderValue]

\* useContext(BrandContext): the nearest provider's value, or the default
\* value createContext(null) was given.
useContext == IF hasProvider THEN [kind |-> "object", value |-> ProviderValue]
              ELSE [kind |-> "null"]

\* useBrand(), called by a component during render.  Every state update of the
\* provider makes React render its consumers again: until then hookResult is
\* NotRendered.
useBrand ==
    /\ LET context == useContext IN
       hookResult' = IF context.kind = "null"
                     THEN [kind |-> "threw",
                           message |-> "useBrand must be used within a BrandProvider"]
                     ELSE [kind |-> "returned", value |-> context.value]
    /\ UNCHANGED <<hasProvider, url, ctxBrandData, contentSettings, generatedPosts,
                   loading, error, calls, settled>>
    /\ UNCHANGED otherThanCtx

setUrl(u) ==
    /\ hasProvider
    /\ url' = u
    /\ settled' = Settled("setUrl", "returned", "undefined", NoResponse, FALSE)
    /\ UNCHANGED <<hasProvider, ctxBrandData, contentSettings, generatedPosts, loading,
                   error, calls>>
    /\ hookResult' = NotRendered
    /\ UNCHANGED otherThanCtx

setBrandData(d) ==
    /\ hasProvider
    /\ ctxBrandData' = d
    /\ settled' = Settled("setBrandData", "returned", "undefined", NoResponse, FALSE)
    /\ UNCHANGED <<hasProvider, url, contentSettings, generatedPosts, loading, error,
                   calls>>
    /\ hookResult' = NotRendered
    /\ UNCHANGED otherThanCtx

setContentSettings(cs) ==
    /\ hasProvider
    /\ contentSettings' = cs
    /\ settled' = Settled("setContentSettings", "returned", "undefined", NoResponse, FALSE)
    /\ UNCHANGED <<hasProvider, url, ctxBrandData, generatedPosts, loading, error,
                   calls>>
    /\ hookResult' = NotRendered
    /\ UNCHANGED otherThanCtx

\* Faulty variant of messageOr: no default text.
messageOnly(message, fallback) == message

\* err.message || fallback
messageOr(message, fallback) == IF Truthy(message) THEN message ELSE fallback

\* A call record; stale (history) is set once clearBrandData runs while the
\* call is in flight.
Call(fn, u) == [fn |-> fn, url |-> u, stale |-> FALSE]

\* analyzeBrand(brandUrl) up to its await.
analyzeBrandCall(brandUrl) ==
    /\ hasProvider
    /\ Len(calls) < MaxCalls
    /\ loading' = TRUE
    /\ error' = "null"
    /\ calls' = Append(calls, Call("analyzeBrand", brandUrl))
    /\ settled' = Settled("analyzeBrand", "pending", "undefined", NoResponse, FALSE)
    /\ UNCHANGED <<hasProvider, url, ctxBrandData, contentSettings, generatedPosts>>
    /\ hookResult' = NotRendered
    /\ UNCHANGED otherThanCtx

\* analyzeBrand(brandUrl) from the settlement of analyzeBrandAPI on.
analyzeBrandSettle(i, resp) ==
    /\ i \in 1..Len(calls)
    /\ calls[i].fn = "analyzeBrand"
    /\ LET res == analyzeBrandAPI(resp) IN
       IF res.kind = "resolve"
       THEN /\ ctxBrandData' = res.value
            /\ settled' = Settled("analyzeBrand", "returned", res.value, resp,
                                  calls[i].stale)
            /\ UNCHANGED error
       ELSE /\ error' = messageOr(res.value, "Failed to analyze brand")
            /\ settled' = Settled("analyzeBrand", "threw", res.value, resp,
                                  calls[i].stale)
            /\ UNCHANGED ctxBrandData
    /\ loading' = FALSE
    /\ calls' = RemoveAt(calls, i)
    /\ UNCHANGED <<hasProvider, url, contentSettings, generatedPosts>>
    /\ hookResult' = NotRendered
    /\ UNCHANGED otherThanCtx

\* generateContent() up to its await (the request body, the brandData and
\* contentSettings of the render that created the callback, is not recorded:
\* the response does not depend on it here).
generateContentCall ==
    /\ hasProvider
    /\ Len(calls) < MaxCalls
    /\ loading' = TRUE
    /\ error' = "null"
    /\ calls' = Append(calls, Call("generateContent", ""))
    /\ settled' = Settled("generateContent", "pending", "undefined", NoResponse, FALSE)
    /\ UNCHANGED <<hasProvider, url, ctxBrandData, contentSettings, generatedPosts>>
    /\ hookResult' = NotRendered
    /\ UNCHANGED otherThanCtx

\* generateContent() from the settlement of generateContentAPI on.
generateContentSettle(i, resp) ==
    /\ i \in 1..Len(calls)
    /\ calls[i].fn = "generateContent"
    /\ LET res == generateContentAPI(resp) IN
       IF res.kind = "resolve"
       THEN /\ generatedPosts' = res.value
            /\ settled' = Settled("generateContent", "returned", res.value, resp,
                                  calls[i].stale)
            /\ UNCHANGED error
       ELSE /\ error' = messageOr(res.value, "Failed to generate content")
            /\ settled' = Settled("generateContent", "threw", res.value, resp,
                                  calls[i].stale)
            /\ UNCHANGED generatedPosts
    /\ loading' = FALSE
    /\ calls' = RemoveAt(calls, i)
    /\ UNCHANGED <<hasProvider, url, ctxBrandData, contentSettings>>
    /\ hookResult' = NotRendered
    /\ UNCHANGED otherThanCtx

clearBrandData ==
    /\ hasProvider
    /\ url' = ""
    /\ ctxBrandData' = "null"
    /\ contentSettings' = DefaultSettings
    /\ generatedPosts' = "[]"
    /\ error' = "null"
    /\ calls' = [k \in 1..Len(calls) |-> [calls[k] EXCEPT !.stale = TRUE]]
    /\ settled' = Settled("clearBrandData", "returned", "undefined", NoResponse, FALSE)
    /\ UNCHANGED <<hasProvider, loading>>
    /\ hookResult' = NotRendered
    /\ UNCHANGED otherThanCtx

CtxInit ==
    /\ hasProvider \in BOOLEAN
    /\ ProviderState
    /\ MainIdle
    /\ LoaderIdle
    /\ CtxLoaderIdle
    /\ PersonaIdle

CtxNext ==
    \/ useBrand
    \/ \E u \in Urls : setUrl(u)
    \/ \E d \in {"bdA", "bdB"} : setBrandData(d)
    \/ \E cs \in Settings : setContentSettings(cs)
    \/ \E u \in Urls : analyzeBrandCall(u)
    \/ \E i \in 1..MaxCalls : \E resp \in ApiAnalyzeResponses : analyzeBrandSettle(i, resp)
    \/ generateContentCall
    \/ \E i \in 1..MaxCalls :
          \E resp \in ApiGenerateResponses : generateContentSettle(i, resp)
    \/ clearBrandData

\* The React front end: BrandProvider, useBrand and the API service.
CtxSpec == CtxInit /\ [][CtxNext]_vars

----------------------------------------------------------------------------
(* AnalysisLoader.jsx (router state) : fallback name *)

\* A url is a sequence of tokens; "." is the dot between labels and "www." the
\* prefix the code removes.
LoaderUrls == {<<>>,
               <<"https://", "www.", "acme", ".", "com">>,
               <<"http://", "shop", ".", "acme", ".", "com">>,
               <<"www.", "www.", "acme", ".", "com">>}

\* .replace(/^https?:\/\//, '')
stripScheme(u) ==
    IF u # <<>> /\ Head(u) \in {"http://", "https://"} THEN Tail(u) ELSE u

\* .replace('www.', ''): a string pattern replaces the first occurrence only.
RECURSIVE stripWww(_)
stripWww(u) ==
    IF u = <<>> THEN <<>>
    ELSE IF Head(u) = "www." THEN Tail(u)
    ELSE <<Head(u)>> \o stripWww(Tail(u))

\* .split('.')[0]
RECURSIVE firstLabel(_)
firstLabel(u) ==
    IF u = <<>> THEN <<>>
    ELSE IF Head(u) = "." THEN <<>>
    ELSE IF Head(u) = "www." THEN <<"www">>
    ELSE <<Head(u)>> \o firstLabel(Tail(u))

upper(token) ==
    CASE token = "acme" -> "ACME"
      [] token = "shop" -> "SHOP"
      [] token = "com" -> "COM"
      [] token = "www" -> "WWW"
      [] token = "http://" -> "HTTP://"
      [] token = "https://" -> "HTTPS://"
      [] OTHER -> token

\* .toUpperCase()
toUpperCase(u) == [i \in 1..Len(u) |-> upper(u[i])]

fallbackName(st) ==
    IF st.url # <<>>
    THEN toUpperCase(firstLabel(stripWww(stripScheme(st.url))))
    ELSE <<"BRAND">>

FallbackDescription ==
    "We couldn't fetch details automatically. Please enter them manually."

finalData(ref, st) ==
    IF ref # "null"
    THEN FinalData(ref, <<>>, "", FALSE)
    ELSE FinalData("null", fallbackName(st), FallbackDescription, TRUE)

----------------------------------------------------------------------------
(* AnalysisLoader.jsx (router state) : the fetch *)

LoaderResponse(net, status, json, success, brand_data, err) ==
    [net |-> net, status |-> status, json |-> json, success |-> success,
     brand_data |-> brand_data, error |-> err]

LoaderResponses ==
    {LoaderResponse(TRUE, 0, FALSE, "undefined", "undefined", "undefined"),
     LoaderResponse(FALSE, 500, TRUE, "false", "undefined", "Scrape failed"),
     LoaderResponse(FALSE, 200, FALSE, "undefined", "undefined", "undefined"),
     LoaderResponse(FALSE, 200, TRUE, "false", "undefined", "Scrape failed"),
     LoaderResponse(FALSE, 200, TRUE, "true", "undefined", "undefined"),
     LoaderResponse(FALSE, 200, TRUE, "true", "bdA", "undefined")}

\* fetch(...).then(res => ...).then(data => data).catch(err => ({success: false, ...}))
fetchChain(r) ==
    IF r.net THEN LoaderData("false", "undefined", "Failed to fetch")
    ELSE IF r.status \notin 200..299
         THEN LoaderData("false", "undefined", "HTTP error! status: " \o ToString(r.status))
    ELSE IF ~r.json THEN LoaderData("false", "undefined", "Unexpected token")
    ELSE LoaderData(r.success, r.brand_data, r.error)

\* data && data.success && data.brand_data
hasBrandData(data) == Truthy(data.success) /\ Truthy(data.brand_data)

----------------------------------------------------------------------------
(* AnalysisLoader.jsx (router state) : the timeline and the effect *)

StepItems(k) == <<[kind |-> "setStatusText", step |-> k], [kind |-> "tweens", step |-> k]>>

Timeline ==
    StepItems(1) \o StepItems(2) \o StepItems(3) \o StepItems(4)
        \o <<[kind |-> "syncPoint", step |-> 0],
             [kind |-> "spacer", step |-> 0],
             [kind |-> "exit", step |-> 0]>>

LoaderInit ==
    /\ state \in {[url |-> u] : u \in LoaderUrls}
    /\ LoaderRendered
    /\ MainIdle
    /\ CtxIdle
    /\ CtxLoaderIdle
    /\ PersonaIdle

\* The timeline is playing and its playhead is at an item of this kind.
Playing(kind) ==
    /\ isMounted
    /\ timelineRef.created
    /\ ~timelineRef.paused
    /\ timelineRef.pos <= Len(Timeline)
    /\ Timeline[timelineRef.pos].kind = kind

advance(tl) == [tl EXCEPT !.pos = @ + 1]

\* useLayoutEffect: build the timeline, then start the fetch or skip it.
useLayoutEffect ==
    /\ ~isMounted
    /\ ~timelineRef.created
    /\ isMounted' = TRUE
    /\ timelineRef' = [created |-> TRUE, pos |-> 1, paused |-> FALSE]
    /\ IF state.url # <<>> /\ fetchedDataRef = "null"
       THEN /\ minDelay' = "pending"
            /\ fetchData' = [fetchData EXCEPT !.status = "pending"]
            /\ promiseAll' = "pending"
            /\ UNCHANGED fetchedDataRef
       ELSE /\ fetchedDataRef' = IF fetchedDataRef = "null" THEN "{}" ELSE fetchedDataRef
            /\ UNCHANGED <<minDelay, fetchData, promiseAll>>
    /\ UNCHANGED <<state, statusText, exitFade, navigated>>
    /\ UNCHANGED otherThanLoader

\* tl.call(() => setStatusText(step))
setStatusTextCallback ==
    /\ Playing("setStatusText")
    /\ statusText' = LOADING_STEPS[Timeline[timelineRef.pos].step]
    /\ timelineRef' = advance(timelineRef)
    /\ UNCHANGED <<state, fetchedDataRef, isMounted, minDelay, fetchData, promiseAll,
                   exitFade, navigated>>
    /\ UNCHANGED otherThanLoader

\* The fade in, hold and fade out of a step (2.5 s) have played; the 1000 ms
\* timer has fired by the time the first step's tweens end.
tweensComplete ==
    /\ Playing("tweens")
    /\ minDelay # "pending"
    /\ timelineRef' = advance(timelineRef)
    /\ UNCHANGED <<state, statusText, fetchedDataRef, isMounted, minDelay, fetchData,
                   promiseAll, exitFade, navigated>>
    /\ UNCHANGED otherThanLoader

\* The callback at the "syncPoint" label.
syncPointCallback ==
    /\ Playing("syncPoint")
    /\ timelineRef' = IF fetchedDataRef = "null"
                      THEN [advance(timelineRef) EXCEPT !.paused = TRUE]
                      ELSE advance(timelineRef)
    /\ UNCHANGED <<state, statusText, fetchedDataRef, isMounted, minDelay, fetchData,
                   promiseAll, exitFade, navigated>>
    /\ UNCHANGED otherThanLoader

\* tl.to({}, {duration: 0.2})
spacerComplete ==
    /\ Playing("spacer")
    /\ timelineRef' = advance(timelineRef)
    /\ UNCHANGED <<state, statusText, fetchedDataRef, isMounted, minDelay, fetchData,
                   promiseAll, exitFade, navigated>>
    /\ UNCHANGED otherThanLoader

\* The exit sequence: fix finalData and start the fade of the container.
exitCallback ==
    /\ Playing("exit")
    /\ exitFade' = [started |-> TRUE, finalData |-> finalData(fetchedDataRef, state)]
    /\ timelineRef' = advance(timelineRef)
    /\ UNCHANGED <<state, statusText, fetchedDataRef, isMounted, minDelay, fetchData,
                   promiseAll, navigated>>
    /\ UNCHANGED otherThanLoader

\* onComplete of the fade: navigate; the route change unmounts the loader,
\* whose effect cleanup sets isMounted to false.
exitFadeComplete ==
    /\ exitFade.started
    /\ navigated.to = ""
    /\ navigated' = [to |-> "/brand-persona", brandData |-> exitFade.finalData]
    /\ isMounted' = FALSE
    /\ UNCHANGED <<state, statusText, fetchedDataRef, timelineRef, minDelay, fetchData,
                   promiseAll, exitFade>>
    /\ UNCHANGED otherThanLoader

\* setTimeout(resolve, 1000)
minDelayElapses ==
    /\ minDelay = "pending"
    /\ minDelay' = "resolved"
    /\ UNCHANGED <<state, statusText, fetchedDataRef, timelineRef, isMounted, fetchData,
                   promiseAll, exitFade, navigated>>
    /\ UNCHANGED otherThanLoader

\* The fetch settles and its then/catch chain resolves fetchData.
fetchSettles(r) ==
    /\ fetchData.status = "pending"
    /\ fetchData' = [status |-> "resolved", data |-> fetchChain(r)]
    /\ UNCHANGED <<state, statusText, fetchedDataRef, timelineRef, isMounted, minDelay,
                   promiseAll, exitFade, navigated>>
    /\ UNCHANGED otherThanLoader

\* Promise.all([minDelay, fetchData]).then(([_, data]) => ...)
promiseAllThen ==
    /\ promiseAll = "pending"
    /\ minDelay = "resolved"
    /\ fetchData.status = "resolved"
    /\ promiseAll' = "handled"
    /\ IF ~isMounted
       THEN UNCHANGED <<fetchedDataRef, timelineRef>>
       ELSE /\ fetchedDataRef' = IF hasBrandData(fetchData.data)
                                 THEN fetchData.data.brand_data
                                 ELSE "null"
            /\ timelineRef' = IF timelineRef.created /\ timelineRef.paused
                              THEN [timelineRef EXCEPT !.paused = FALSE]
                              ELSE timelineRef
    /\ UNCHANGED <<state, statusText, isMounted, minDelay, fetchData, exitFade, navigated>>
    /\ UNCHANGED otherThanLoader

LoaderNext ==
    \/ useLayoutEffect
    \/ setStatusTextCallback
    \/ tweensComplete
    \/ syncPointCallback
    \/ spacerComplete
    \/ exitCallback
    \/ exitFadeComplete
    \/ minDelayElapses
    \/ \E r \in LoaderResponses : fetchSettles(r)
    \/ promiseAllThen

\* GSAP keeps ticking a playing timeline, timers fire, the fetch settles one way
\* or the other, and settled promises run their handlers.
LoaderFairness ==
    /\ WF_vars(useLayoutEffect)
    /\ WF_vars(setStatusTextCallback)
    /\ WF_vars(tweensComplete)
    /\ WF_vars(syncPointCallback)
    /\ WF_vars(spacerComplete)
    /\ WF_vars(exitCallback)
    /\ WF_vars(exitFadeComplete)
    /\ WF_vars(minDelayElapses)
    /\ WF_vars(\E r \in LoaderResponses : fetchSettles(r))
    /\ WF_vars(promiseAllThen)

LoaderSpec == LoaderInit /\ [][LoaderNext]_vars /\ LoaderFairness

----------------------------------------------------------------------------
(* AnalysisLoader.jsx (BrandContext) : effects, promise handlers and timers *)

\* What the loader leaves alone: it reaches the context only through url and
\* analyzeBrand.
otherThanCtxLoader ==
    <<mainVars, loaderVars, personaVars, hasProvider, url, contentSettings,
      generatedPosts, calls, settled, hookResult>>

\* What gsap.to can do with the fade-out: run it to its onComplete, throw, or
\* never reach onComplete.
GsapOutcomes == {"completes", "throws", "never"}

CtxLoaderInit ==
    /\ route = "/analyzing"
    /\ mounted = TRUE
    /\ toCommit = "mount"
    /\ FirstRender
    /\ hasProvider = TRUE
    /\ url \in Urls
    /\ ctxBrandData = "null"
    /\ contentSettings = DefaultSettings
    /\ generatedPosts = "[]"
    /\ loading = FALSE
    /\ error = "null"
    /\ calls = <<>>
    /\ settled = Settled("none", "none", "undefined", NoResponse, FALSE)
    /\ hookResult = NotRendered
    /\ MainIdle
    /\ LoaderIdle
    /\ PersonaIdle

\* Faulty variant of completionReady: isAnalyzing is not looked at.
completionReadyIgnoresAnalyzing(analyzing, err, started) == ~Truthy(err) /\ started

\* !isAnalyzing && !apiError && analysisStarted.current
completionReady(analyzing, err, started) == ~analyzing /\ ~Truthy(err) /\ started

\* Faulty variant of safetyFallback: no safety timer is set.
noSafetyFallback(timers) == timers

\* setTimeout(() => navigate('/brand-persona'), 3000)
safetyFallback(timers) == timers + 1

\* The first commit: the layout effect starts the text timeline, the start
\* effect starts the analysis (or leaves for the intake page), and the
\* completion effect runs with the values of the first render.
MountCommit ==
    /\ toCommit = "mount"
    /\ animating' = ~Truthy(rendered.apiError)
    /\ analysisStarted' = TRUE
    /\ IF ~Truthy(url)
       THEN /\ navLog' = Append(navLog, "/brand-intake")
            /\ route' = "/brand-intake"
            /\ UNCHANGED <<isAnalyzing, attempt, loading, error>>
       ELSE /\ isAnalyzing' = TRUE
            /\ attempt' = "mount"
            /\ loading' = TRUE
            /\ error' = "null"
            /\ UNCHANGED <<navLog, route>>
    /\ delayTimer' = completionReady(rendered.isAnalyzing, rendered.apiError, TRUE)
    /\ toCommit' = "update"
    /\ UNCHANGED <<mounted, apiError, rendered, outcome, fade, safetyTimers, ctxBrandData>>
    /\ UNCHANGED otherThanCtxLoader

\* React renders again after a state update or a route change: a loader whose
\* route is gone unmounts (the effect cleanups run); otherwise the effects
\* whose dependencies changed are cleaned up and run again.
Rerender ==
    /\ toCommit = "update"
    /\ mounted
    /\ toCommit' = "none"
    /\ IF route # "/analyzing"
       THEN /\ mounted' = FALSE
            /\ delayTimer' = FALSE
            /\ animating' = FALSE
            /\ UNCHANGED rendered
       ELSE /\ rendered' = [isAnalyzing |-> isAnalyzing, apiError |-> apiError]
            /\ animating' = ~Truthy(apiError)
            /\ delayTimer' = IF rendered' = rendered THEN delayTimer
                             ELSE completionReady(isAnalyzing, apiError, analysisStarted)
            /\ UNCHANGED mounted
    /\ UNCHANGED <<route, apiError, isAnalyzing, analysisStarted, attempt, outcome, fade,
                   safetyTimers, navLog>>
    /\ UNCHANGED <<ctxBrandData, loading, error>>
    /\ UNCHANGED otherThanCtxLoader

\* The analyzeBrand promise settles (the re-render its start caused has
\* happened by then): the context stores the brand or the error, then the
\* loader's then / catch handler runs.
AnalysisSettles(resp) ==
    /\ attempt # "none"
    /\ toCommit = "none"
    /\ LET res == analyzeBrandAPI(resp) IN
       /\ IF res.kind = "resolve"
          THEN /\ ctxBrandData' = res.value
               /\ UNCHANGED <<error, apiError>>
          ELSE /\ error' = messageOr(res.value, "Failed to analyze brand")
               /\ apiError' = IF attempt = "mount"
                              THEN messageOr(res.value, "Failed to analyze brand")
                              ELSE res.value
               /\ UNCHANGED ctxBrandData
       /\ outcome' = [attempt |-> attempt, result |-> res.kind, message |-> res.value]
    /\ loading' = FALSE
    /\ isAnalyzing' = FALSE
    /\ attempt' = "none"
    /\ toCommit' = "update"
    /\ UNCHANGED <<route, mounted, analysisStarted, rendered, delayTimer, fade,
                   safetyTimers, navLog, animating>>
    /\ UNCHANGED otherThanCtxLoader

\* The 'Analysis Failed' screen is on display.
ErrorScreen == mounted /\ route = "/analyzing" /\ toCommit = "none" /\ Truthy(rendered.apiError)

\* onClick of the Retry button.
ClickRetry ==
    /\ ErrorScreen
    /\ apiError' = "null"
    /\ analysisStarted' = FALSE
    /\ isAnalyzing' = TRUE
    /\ attempt' = "retry"
    /\ loading' = TRUE
    /\ error' = "null"
    /\ toCommit' = "update"
    /\ UNCHANGED <<route, mounted, rendered, outcome, delayTimer, fade, safetyTimers,
                   navLog, animating, ctxBrandData>>
    /\ UNCHANGED otherThanCtxLoader

\* onClick of the Go Back button.
ClickGoBack ==
    /\ ErrorScreen
    /\ navLog' = Append(navLog, "/brand-intake")
    /\ route' = "/brand-intake"
    /\ toCommit' = "update"
    /\ UNCHANGED <<mounted, apiError, isAnalyzing, analysisStarted, rendered, attempt,
                   outcome, delayTimer, fade, safetyTimers, animating>>
    /\ UNCHANGED <<ctxBrandData, loading, error>>
    /\ UNCHANGED otherThanCtxLoader

\* The 1000 ms timer of the completion effect fires (a re-render that is due
\* comes first): start the fade-out, navigate directly if gsap.to throws, and
\* set the safety timer.
DelayTimerFires(gsap) ==
    /\ delayTimer
    /\ toCommit = "none"
    /\ delayTimer' = FALSE
    /\ IF gsap = "throws"
       THEN /\ navLog' = Append(navLog, "/brand-persona")
            /\ route' = "/brand-persona"
            /\ toCommit' = "update"
            /\ UNCHANGED fade
       ELSE /\ fade' = IF gsap = "completes" THEN "running" ELSE "stalled"
            /\ UNCHANGED <<navLog, route, toCommit>>
    /\ safetyTimers' = safetyFallback(safetyTimers)
    /\ UNCHANGED <<mounted, apiError, isAnalyzing, analysisStarted, rendered, attempt,
                   outcome, animating>>
    /\ UNCHANGED <<ctxBrandData, loading, error>>
    /\ UNCHANGED otherThanCtxLoader

\* onComplete of the fade-out (0.8 s).
FadeOnComplete ==
    /\ fade = "running"
    /\ toCommit = "none"
    /\ fade' = "done"
    /\ navLog' = Append(navLog, "/brand-persona")
    /\ route' = "/brand-persona"
    /\ toCommit' = IF mounted THEN "update" ELSE toCommit
    /\ UNCHANGED <<mounted, apiError, isAnalyzing, analysisStarted, rendered, attempt,
                   outcome, delayTimer, safetyTimers, animating>>
    /\ UNCHANGED <<ctxBrandData, loading, error>>
    /\ UNCHANGED otherThanCtxLoader

\* A 3000 ms safety timer fires; a fade-out that is running has completed by
\* then, and so has a re-render that was due.
SafetyTimerFires ==
    /\ safetyTimers > 0
    /\ fade # "running"
    /\ toCommit = "none"
    /\ safetyTimers' = safetyTimers - 1
    /\ navLog' = Append(navLog, "/brand-persona")
    /\ route' = "/brand-persona"
    /\ toCommit' = IF mounted THEN "update" ELSE toCommit
    /\ UNCHANGED <<mounted, apiError, isAnalyzing, analysisStarted, rendered, attempt,
                   outcome, delayTimer, fade, animating>>
    /\ UNCHANGED <<ctxBrandData, loading, error>>
    /\ UNCHANGED otherThanCtxLoader

\* The user, arrived at /brand-persona, goes on to another page.
UserMovesOn ==
    /\ route = "/brand-persona"
    /\ ~mounted
    /\ route' = "/elsewhere"
    /\ UNCHANGED <<mounted, apiError, isAnalyzing, analysisStarted, rendered, toCommit,
                   attempt, outcome, delayTimer, fade, safetyTimers, navLog, animating>>
    /\ UNCHANGED <<ctxBrandData, loading, error>>
    /\ UNCHANGED otherThanCtxLoader

CtxLoaderNext ==
    \/ MountCommit
    \/ Rerender
    \/ \E resp \in ApiAnalyzeResponses : AnalysisSettles(resp)
    \/ ClickRetry
    \/ ClickGoBack
    \/ \E g \in GsapOutcomes : DelayTimerFires(g)
    \/ FadeOnComplete
    \/ SafetyTimerFires
    \/ UserMovesOn

\* React runs the effects and re-renders that are due, the API call settles,
\* timers fire and a running tween completes; the user need not click.
CtxLoaderFairness ==
    /\ WF_vars(MountCommit)
    /\ WF_vars(Rerender)
    /\ WF_vars(\E resp \in ApiAnalyzeResponses : AnalysisSettles(resp))
    /\ WF_vars(\E g \in GsapOutcomes : DelayTimerFires(g))
    /\ WF_vars(FadeOnComplete)
    /\ WF_vars(SafetyTimerFires)

CtxLoaderSpec == CtxLoaderInit /\ [][CtxLoaderNext]_vars /\ CtxLoaderFairness

----------------------------------------------------------------------------
(* BrandPersona : the Brand Palette card *)

HexA == JsString("#", "ff5733")
HexB == JsString("#", "0a0a0a")
Label == JsString("I", "nk")

\* Elements a colors array is drawn from: a hex string, a color name, a
\* [hex, label] tuple, a tuple whose first element is no hex string, and null.
ColorEntries ==
    {HexA, JsString("r", "ed"), JsTuple(<<HexB, Label>>),
     JsTuple(<<JsString("r", "gb(0,0,0)"), Label>>), JsNull}

\* Values of an object-shaped colors.
ColorValues == {HexA, JsString("r", "ed"), JsTuple(<<HexB, Label>>)}

ColorsInputs ==
    {Colors("undefined", <<>>), Colors("null", <<>>), Colors("string", <<>>)}
    \cup {Colors("array", e) : e \in UNION {[1..n -> ColorEntries] : n \in 0..MaxColorEntries}}
    \cup {Colors("object", e) : e \in UNION {[1..n -> ColorValues] : n \in 0..2}}

LocationStates ==
    {NoBrandData} \cup {[hasBrandData |-> TRUE, colors |-> c] : c \in ColorsInputs}

\* ['#111111', '#888888', '#eeeeee']
FallbackColors ==
    <<JsString("#", "111111"), JsString("#", "888888"), JsString("#", "eeeeee")>>

\* colors: ['#111', '#333', '#555'] of the default brandData
DefaultColors == <<JsString("#", "111"), JsString("#", "333"), JsString("#", "555")>>

\* state?.brandData || { ..., colors: ['#111', '#333', '#555'], ... }, then
\* if (!brandData.colors || brandData.colors.length === 0) brandData.colors = [...]
brandDataColors(locState) ==
    LET colors == IF locState.hasBrandData THEN locState.colors
                  ELSE Colors("array", DefaultColors)
    IN IF colors.kind \in {"undefined", "null"}
          \/ (colors.kind = "array" /\ Len(colors.entries) = 0)
       THEN Colors("array", FallbackColors)
       ELSE colors

\* Faulty variant of firstElement: a tuple is passed on as it is.
firstElementDropped(c) == c

\* c => { if (Array.isArray(c) && c.length > 0) return c[0]; return c; }
firstElement(c) == IF c.type = "array" /\ Len(c.items) > 0 THEN c.items[1] ELSE c

\* c => typeof c === 'string' && c.startsWith('#')
isHexString(c) == c.type = "string" /\ c.head = "#"

\* Array.prototype.filter
RECURSIVE filter(_)
filter(seq) ==
    IF seq = <<>> THEN <<>>
    ELSE IF isHexString(Head(seq)) THEN <<Head(seq)>> \o filter(Tail(seq))
    ELSE filter(Tail(seq))

\* Array.prototype.slice(0, end)
slice(seq, end) == SubSeq(seq, 1, IF Len(seq) < end THEN Len(seq) ELSE end)

\* safeData.colors after the color resolution and the fallback.
resolveColors(colors) ==
    LET found == IF colors.kind = "array"
                 THEN filter([i \in DOMAIN colors.entries |->
                                 firstElement(colors.entries[i])])
                 ELSE IF colors.kind = "object" THEN filter(colors.entries)
                 ELSE <<>>
    IN IF Len(found) = 0 THEN FallbackColors ELSE found

PersonaInit ==
    /\ locationState \in LocationStates
    /\ personaRendered = FALSE
    /\ safeDataColors = <<>>
    /\ swatches = <<>>
    /\ MainIdle
    /\ CtxIdle
    /\ LoaderIdle
    /\ CtxLoaderIdle

\* BrandPersona renders.
RenderBrandPersona ==
    /\ ~personaRendered
    /\ personaRendered' = TRUE
    /\ safeDataColors' = resolveColors(brandDataColors(locationState))
    /\ swatches' = slice(safeDataColors', 5)
    /\ UNCHANGED locationState
    /\ UNCHANGED otherThanPersona

PersonaNext == RenderBrandPersona

PersonaSpec == PersonaInit /\ [][PersonaNext]_vars

----------------------------------------------------------------------------
(* Claims about the router-state AnalysisLoader (LoaderSpec) *)

\* The fetch chain has resolved without usable brand data.
AnalyzeCallFailed == fetchData.status = "resolved" /\ ~hasBrandData(fetchData.data)

NavigatedWithFallback ==
    /\ navigated.to = "/brand-persona"
    /\ navigated.brandData.isFallback
    /\ navigated.brandData.name = fallbackName(state)
    /\ navigated.brandData.description = FallbackDescription

\* C1: in the router-state AnalysisLoader, once the POST /brand/analyze call
\* has failed (network error, non-2xx status, or a body without success and
\* brand_data), the loader eventually navigates to /brand-persona carrying the
\* fallback brand data, whether the call settled before or after the timeline
\* reached its sync point.
C1_FailedAnalysisStillNavigates == AnalyzeCallFailed ~> NavigatedWithFallback

----------------------------------------------------------------------------
(* Claims about the BrandContext and the API service (CtxSpec) *)

\* The step settles an analyzeBrand call of the context.
AnalyzeSettled == settled'.op = "analyzeBrand" /\ settled'.kind \in {"returned", "threw"}

\* The step settles a generateContent call of the context.
GenerateSettled ==
    settled'.op = "generateContent" /\ settled'.kind \in {"returned", "threw"}

\* The body carries a non-empty error text.
HasErrorText(resp) == resp.json /\ resp.error \notin {"undefined", ""}

StatusText(status) ==
    CASE status = 404 -> "API request failed with status 404"
      [] status = 500 -> "API request failed with status 500"
      [] OTHER -> "API request failed with status ?"

\* C2: when a BrandContext.analyzeBrand call resolves, brandData becomes the
\* brand_data of that call's response (and the call returns it); brandData
\* changes in no step other than a resolving analyzeBrand, setBrandData or
\* clearBrandData.
C2_BrandDataIsTheAnalysedBrand ==
    [][/\ (AnalyzeSettled /\ settled'.kind = "returned")
             => /\ ctxBrandData' = settled'.resp.brand_data
                /\ settled'.value = settled'.resp.brand_data
       /\ ctxBrandData' # ctxBrandData
             => \/ settled'.op = "analyzeBrand" /\ settled'.kind = "returned"
                \/ settled'.op \in {"setBrandData", "clearBrandData"}]_vars

\* C2 witness: an analyzeBrand call has resolved and brandData holds the
\* brand_data of its response, replacing what setBrandData had stored.
C2_Witness ==
    /\ settled.op = "analyzeBrand" /\ settled.kind = "returned"
    /\ settled.resp.brand_data = "bdA"
    /\ ctxBrandData = "bdA"
    /\ calls # <<>>

\* C3: the API service's analyzeBrand resolves only on an OK status with
\* success true, and then with the body's brand_data; on a non-OK status it
\* rejects with the body's error text, or with 'API request failed with status
\* N' when the body has none or is not JSON; on an OK status with success false
\* it rejects with the body's error text or 'Brand analysis failed'.
C3_ApiAnalyzeBrandOutcome ==
    (settled.op = "analyzeBrand" /\ settled.kind \in {"returned", "threw"}) =>
        LET resp == settled.resp IN
        /\ settled.kind = "returned"
              => /\ ~resp.net /\ resp.status = 200 /\ resp.json
                 /\ resp.success = "true"
                 /\ settled.value = resp.brand_data
        /\ (~resp.net /\ resp.status # 200)
              => /\ settled.kind = "threw"
                 /\ settled.value = IF HasErrorText(resp) THEN resp.error
                                     ELSE StatusText(resp.status)
        /\ (~resp.net /\ resp.status = 200 /\ resp.json /\ resp.success = "false")
              => /\ settled.kind = "threw"
                 /\ settled.value = IF HasErrorText(resp) THEN resp.error
                                     ELSE "Brand analysis failed"

\* C3 witness: a 404 whose body is not JSON was rejected with the status message.
C3_Witness ==
    /\ settled.op = "analyzeBrand" /\ settled.kind = "threw"
    /\ settled.resp.status = 404 /\ ~settled.resp.json
    /\ settled.value = "API request failed with status 404"

\* C4: useBrand() throws 'useBrand must be used within a BrandProvider' when
\* no BrandProvider is above the caller, and otherwise returns the provider's
\* value object; it never returns null.
C4_UseBrandNeedsProvider ==
    hookResult.kind # "none" =>
        IF hasProvider
        THEN hookResult.kind = "returned" /\ hookResult.value = ProviderValue
        ELSE /\ hookResult.kind = "threw"
             /\ hookResult.message = "useBrand must be used within a BrandProvider"

\* C4 witness: useBrand() has thrown for a component outside any provider.
C4_Witness == ~hasProvider /\ hookResult.kind = "threw"

\* C5: when the API call inside BrandContext.analyzeBrand rejects, error
\* becomes the rejection's message ('Failed to analyze brand' when it is
\* empty), the call rethrows that rejection, brandData is left as it was and
\* loading is false afterwards; every analyzeBrand call starts by setting
\* error to null.
C5_AnalyzeFailureHandling ==
    [][/\ (AnalyzeSettled /\ analyzeBrandAPI(settled'.resp).kind = "reject")
             => LET message == analyzeBrandAPI(settled'.resp).value IN
                /\ error' = IF message = "" THEN "Failed to analyze brand" ELSE message
                /\ settled'.kind = "threw"
                /\ settled'.value = message
                /\ ctxBrandData' = ctxBrandData
                /\ loading' = FALSE
       /\ (settled'.op = "analyzeBrand" /\ settled'.kind = "pending")
             => error' = "null"]_vars

\* C5 witness: a rejection without a message has left the default error text,
\* and brandData still holds what an earlier analysis stored.
C5_Witness ==
    /\ settled.op = "analyzeBrand" /\ settled.kind = "threw" /\ settled.value = ""
    /\ error = "Failed to analyze brand"
    /\ ctxBrandData = "bdA"
    /\ ~loading

\* C6: clearBrandData leaves url '', brandData null, contentSettings
\* {platforms: [], frequency: '3/week'}, generatedPosts empty and error null,
\* and an analyzeBrand or generateContent call that was in flight when
\* clearBrandData ran changes none of brandData, generatedPosts and error when
\* it settles.
C6_ClearIsNotUndoneByCallsInFlight ==
    [][/\ settled'.op = "clearBrandData"
             => /\ url' = "" /\ ctxBrandData' = "null"
                /\ contentSettings' = [platforms |-> {}, frequency |-> "3/week"]
                /\ generatedPosts' = "[]" /\ error' = "null"
       /\ ((AnalyzeSettled \/ GenerateSettled) /\ settled'.stale)
             => /\ ctxBrandData' = ctxBrandData
                /\ generatedPosts' = generatedPosts
                /\ error' = error]_vars

----------------------------------------------------------------------------
(* Claims about main.js (Spec, CopySpec) *)

\* The field value is empty or holds only whitespace.
IsBlank(v) == \A k \in 1..Len(v) : v[k] = " "

\* C7: clicking Analyze while #website-url is empty or holds only whitespace
\* shows 'Please enter a valid URL' in the brand error element and sends no
\* request; brandData, the loading indicator and the active section stay as
\* they were.
C7_BlankUrlIsRejected ==
    [][\A v \in UrlInputs :
          (IsBlank(v) /\ ClickAnalyze(v))
              => /\ errText'["brandError"] = "Please enter a valid URL"
                 /\ ~hidden'["brandError"]
                 /\ inflight' = inflight
                 /\ brandData' = brandData
                 /\ hidden'["loading"] = hidden["loading"]
                 /\ sectionActive' = sectionActive
                 /\ navActive' = navActive]_vars

\* C7 witness: the validation message is on display and nothing was sent.
C7_Witness ==
    /\ errText["brandError"] = "Please enter a valid URL"
    /\ ~hidden["brandError"]
    /\ inflight = <<>>
    /\ brandData = "null"

\* C8: the #loading indicator is visible exactly while at least one
\* /brand/analyze request of analyzeBrand is outstanding.
C8_SpinnerShowsWhileAnalyzing ==
    (Outstanding("analyze") # {}) <=> ~hidden["loading"]

\* C9: while a request is in progress no further request is started, and the
\* active section changes only when a request completes.
C9_LoadingDisablesControls ==
    [][inflight # <<>>
          => /\ Len(inflight') <= Len(inflight)
             /\ sectionActive' # sectionActive => Len(inflight') < Len(inflight)]_vars

\* C10: once every pending timer of the copy handler has fired, each Copy
\* button shows its original 'Copy' label again.
C10_CopyLabelReverts ==
    copyTimers = <<>> => \A b \in Buttons : copyText[b] = "Copy"

\* C11: after DOMContentLoaded and after any sequence of navigateToSection
\* calls naming home, brand or calendar, exactly one section and exactly one nav
\* link carry 'active', and they are those of the section requested last; the
\* initial active section is 'home'.
C11_OneActiveSection ==
    [][/\ domReady' => /\ Cardinality(sectionActive') = 1
                       /\ Cardinality(navActive') = 1
                       /\ navActive' = sectionActive'
       /\ DOMContentLoaded => sectionActive' = {"home"} /\ navActive' = {"home"}
       /\ \A s \in Sections :
             ClickNav(s) => sectionActive' = {s} /\ navActive' = {s}]_vars

\* C11 witness: a nav click made 'brand' the one active section, replacing
\* 'home', before any analysis had run.
C11_Witness ==
    /\ domReady
    /\ sectionActive = {"brand"} /\ navActive = {"brand"}
    /\ brandData = "null" /\ inflight = <<>>

\* The analysis answered by r succeeds: an OK response whose JSON body carries
\* a brand_data object the page renders.
AnalysisSucceeds(r) == ~r.net /\ r.ok /\ r.json /\ displayBrandProfile(r.data) = "ok"

\* C12: when a main.js brand analysis succeeds, the response's brand_data is
\* stored, the brand profile is shown, the loading indicator and the brand
\* error are hidden and 'brand' becomes the active section; when it fails (a
\* non-OK response or any exception), the brand error element is shown with
\* the error message (the body's error text or 'Failed to analyze brand' for a
\* non-OK JSON response), the loading indicator is hidden and the active
\* section is not changed.
C12_AnalysisOutcomeOnPage ==
    [][\A i \in Outstanding("analyze") : \A r \in AnalyzeResponses :
          AnalyzeSettle(i, r) =>
             IF AnalysisSucceeds(r)
             THEN /\ brandData' = r.data
                  /\ ~hidden'["brandProfile"]
                  /\ hidden'["loading"]
                  /\ hidden'["brandError"]
                  /\ sectionActive' = {"brand"}
                  /\ navActive' = {"brand"}
             ELSE /\ ~hidden'["brandError"]
                  /\ errText'["brandError"] # ""
                  /\ (~r.net /\ r.json /\ ~r.ok)
                        => errText'["brandError"] =
                             IF r.error \in {"undefined", ""}
                             THEN "Failed to analyze brand" ELSE r.error
                  /\ hidden'["loading"]
                  /\ sectionActive' = sectionActive
                  /\ navActive' = navActive]_vars

\* C12 witness: an analysis failed with the server's error text and a later
\* one succeeded: the brand is stored and shown, the error box is hidden again.
C12_Witness ==
    /\ brandData = "bdA"
    /\ ~hidden["brandProfile"] /\ hidden["loading"] /\ hidden["brandError"]
    /\ errText["brandError"] = "Scrape failed"
    /\ sectionActive = {"brand"}
    /\ inflight = <<>>

\* C13: when generateCalendar runs while no brand data is held it shows
\* 'Please analyze a brand first' in the calendar error element and sends no
\* request; every /calendar/generate request that is sent carries the
\* brand_data of an analysis that succeeded.
C13_CalendarNeedsAnalysedBrand ==
    [][/\ \A t \in Tones :
             (ClickGenerate(t) /\ brandData \in {"null", "undefined"})
                => /\ errText'["calendarError"] = "Please analyze a brand first"
                   /\ ~hidden'["calendarError"]
                   /\ inflight' = inflight
       /\ \A k \in 1..Len(inflight') :
             inflight'[k].endpoint = "calendar"
                => \E r \in AnalyzeResponses :
                      AnalysisSucceeds(r) /\ r.data = inflight'[k].brand_data]_vars

\* C14: after several Generate/Regenerate clicks, once all /calendar/generate
\* requests have completed successfully (none is outstanding and none has
\* written the calendar error), calendarData and the cards shown are the
\* response to the request issued last, the one for the tone selected last.
C14_LastToneWins ==
    (/\ lastTone # ""
     /\ Outstanding("calendar") = {}
     /\ errText["calendarError"] = "")
        => /\ calendarData = CalendarFor(lastTone)
           /\ cardsShown = CalendarFor(lastTone)

----------------------------------------------------------------------------
(* Claims about the context-based AnalysisLoader (CtxLoaderSpec) *)

\* navigate('/brand-persona') has been called.
NavigatedToPersona == \E i \in DOMAIN navLog : navLog[i] = "/brand-persona"

RetrySucceeded == outcome.attempt = "retry" /\ outcome.result = "resolve"

\* C16: after Retry on the 'Analysis Failed' screen, a retried analyzeBrand call
\* that succeeds is eventually followed by navigation to /brand-persona, as a
\* first-attempt success is.
C16_RetrySuccessNavigates == RetrySucceeded ~> NavigatedToPersona

MountSucceeded == outcome.attempt = "mount" /\ outcome.result = "resolve"

\* C17: once the analyzeBrand call started on mount has resolved, navigation to
\* /brand-persona eventually happens: by the fade-out's onComplete, by the
\* direct call when gsap.to throws, or by the safety timer when onComplete
\* never fires.
C17_MountSuccessNavigates == MountSucceeded ~> NavigatedToPersona

\* The first-attempt success whose fade-out never completed has navigated all
\* the same.
C17_Witness == MountSucceeded /\ fade = "stalled" /\ NavigatedToPersona

\* How many times navigate('/brand-persona') has been called.
PersonaNavigations == Cardinality({i \in DOMAIN navLog : navLog[i] = "/brand-persona"})

\* C18: the safety fallback navigates only if the fade-out's onComplete never
\* fired, so navigate('/brand-persona') is called at most once for the
\* successful analysis, and not again once the user has arrived there and
\* moved on.
C18_NavigatesOnce == PersonaNavigations <= 1

\* This step calls navigate('/brand-persona').
NavigatesToPersona ==
    /\ Len(navLog') = Len(navLog) + 1
    /\ navLog'[Len(navLog')] = "/brand-persona"

\* C19: every call of navigate('/brand-persona') comes after an analyzeBrand
\* call has resolved: the context URL is not empty, no analysis is in flight
\* (the timer set with the values of the first render never fires), and no
\* analysis error is on display.
C19_NavigatesOnlyAfterSuccess ==
    [][NavigatesToPersona =>
         /\ outcome.result = "resolve"
         /\ Truthy(url)
         /\ attempt = "none"
         /\ ~isAnalyzing
         /\ ~Truthy(apiError)]_vars

\* The fade-out's onComplete has navigated after the resolved analysis.
C19_Witness == fade = "done" /\ NavigatedToPersona /\ outcome.result = "resolve"

----------------------------------------------------------------------------
(* Claims about BrandPersona (PersonaSpec) *)

\* A [hex, label] tuple whose first element is a '#'-prefixed string.
HexTuple(e) ==
    /\ e.type = "array"
    /\ Len(e.items) > 0
    /\ e.items[1].type = "string"
    /\ e.items[1].head = "#"

\* brandData.colors holds no valid color: it is missing, no array or object,
\* or none of its elements is a '#'-prefixed string or a tuple starting with one.
NoValidColor ==
    /\ locationState.hasBrandData
    /\ LET colors == locationState.colors IN
       \/ colors.kind \notin {"array", "object"}
       \/ /\ colors.kind = "array"
          /\ \A i \in DOMAIN colors.entries :
                /\ ~HexTuple(colors.entries[i])
                /\ ~(colors.entries[i].type = "string" /\ colors.entries[i].head = "#")
       \/ /\ colors.kind = "object"
          /\ \A i \in DOMAIN colors.entries :
                ~(colors.entries[i].type = "string" /\ colors.entries[i].head = "#")

\* C20: whatever brandData.colors is, the rendered palette has between 1 and 5
\* swatches, each a string beginning with '#'; every [hex, label] tuple of a
\* colors array contributes its first element; and when no valid color
\* remains the palette is exactly ['#111111', '#888888', '#eeeeee'].
C20_UsablePalette ==
    personaRendered =>
        /\ Len(swatches) \in 1..5
        /\ \A i \in DOMAIN swatches : swatches[i].type = "string" /\ swatches[i].head = "#"
        /\ (locationState.hasBrandData /\ locationState.colors.kind = "array") =>
              \A i \in DOMAIN locationState.colors.entries :
                 HexTuple(locationState.colors.entries[i]) =>
                    \E j \in DOMAIN safeDataColors :
                       safeDataColors[j] = locationState.colors.entries[i].items[1]
        /\ NoValidColor => swatches = FallbackColors

\* A colors array of six elements that starts with a [hex, label] tuple has
\* been rendered as five swatches, the tuple's hex first.
C20_Witness ==
    /\ personaRendered
    /\ locationState.hasBrandData
    /\ locationState.colors.kind = "array"
    /\ Len(locationState.colors.entries) = 6
    /\ HexTuple(locationState.colors.entries[1])
    /\ Len(swatches) = 5
    /\ swatches[1] = locationState.colors.entries[1].items[1]

====
